---- MODULE Spec2Model ----
(***************************************************************************)
(* Lock-free state exchangers of jack2:                                    *)
(*   JackAtomicState<T>      (src/common/JackAtomicState.h)      two slots,*)
(*                           one writer (reentrant), one RT reader;        *)
(*   JackAtomicArrayState<T> (src/common/JackAtomicArrayState.h) 3 slots,  *)
(*                           writers on pending ids 1 and 2, one RT reader,*)
(*                           one non-RT inspector.                         *)
(* Every atomic access of the counter word (load, compare_exchange) is one *)
(* step; thread-local computation is folded into the step that follows the *)
(* load it depends on.  Variables whose names start with h, and the fields *)
(* documented as "ghost", record history and never influence the program.  *)
(***************************************************************************)
EXTENDS Integers, Naturals, FiniteSets, Sequences, TLC

VARIABLES
    variant,            \* which class is instantiated: "single" or "array"
    \* ---- JackAtomicState<T>
    fState,             \* T fState[2]
    fCounter,           \* AtomicCounter fCounter: [cur, next]
    fCallWriteCounter,  \* SInt32 fCallWriteCounter
    w,                  \* the writer thread: position and locals
    r,                  \* the RT reader thread: position and locals
    h,                  \* ghost history of the single exchanger
    si,                 \* a non-RT reading thread (TestReadMethod)
    \* ---- JackAtomicArrayState<T>
    aState,             \* T fState[3]
    aCounter,           \* AtomicArrayCounter fCounter: fByteVal[0..3]
    aw,                 \* the writer threads, by pending id
    ar,                 \* the RT reader thread
    ai,                 \* the non-RT inspector thread
    ah,                 \* ghost history of the array exchanger
    \* ---- observer
    nFail               \* per thread, the CompareExchange calls that failed in
                        \* the call it is in; <<>> where this is not observed

svars == <<fState, fCounter, fCallWriteCounter, w, r, h, si>>
avars == <<aState, aCounter, aw, ar, ai, ah>>
vars == <<variant, fState, fCounter, fCallWriteCounter, w, r, h, si,
          aState, aCounter, aw, ar, ai, ah, nFail>>

(***************************************************************************)
(* Bounds of the model and constants of the program                        *)
(***************************************************************************)
MaxRegions == 3         \* outermost write regions the single writer opens
MaxDepth == 2           \* nesting depth of WriteNextStateStart calls
MaxVal == 1             \* payload fields range over 0..MaxVal
MaxRegionsA == 4        \* write regions the array writers open, in total
Mod16 == 65536          \* UInt16 fShortVal1, fShortVal2
Mod8 == 256             \* unsigned char fByteVal[4]

NoSlot == 0 - 1         \* "no pointer held"
Vals == 0..MaxVal
Payloads == [a : Vals, b : Vals]
InitPayload == [a |-> 0, b |-> 0]
\* cur == next values the exchanger starts from: fresh, and just below the wrap
StartIndexes == {0, Mod16 - 2}

(***************************************************************************)
(* AtomicCounter (JackAtomicState.h)                                       *)
(***************************************************************************)
CurIndex(c) == c.cur
NextIndex(c) == c.next
SetCurIndex_OddWrap(c, val) == [c EXCEPT !.cur = val % (Mod16 - 1)]
SetCurIndex(c, val) == [c EXCEPT !.cur = val % Mod16]
SetNextIndex(c, val) == [c EXCEPT !.next = val % Mod16]
CurArrayIndex(c) == CurIndex(c) % 2

NextArrayIndex_SameSlot(c) == CurIndex(c) % 2
NextArrayIndex(c) == (CurIndex(c) + 1) % 2

(***************************************************************************)
(* The loop bodies of JackAtomicState                                      *)
(***************************************************************************)
\* WriteNextStateStartAux: cur_index is CurIndex(), not CurArrayIndex()
StartCurIndex(old) == CurIndex(old)
StartNextIndex(old) == NextArrayIndex(old)
NeedCopy(old) == CurIndex(old) = NextIndex(old)
StartNewVal_Keep(old) == old
StartNewVal(old) == SetNextIndex(old, CurIndex(old))

\* memcpy(&fState[next_index], &fState[cur_index], sizeof(T)): what the
\* source bytes can be.  An index past the array reads whatever lies there.
MemcpySource(st, idx) == IF idx \in {0, 1} THEN {st[idx]} ELSE Payloads

\* WriteNextStateStopAux
StopNewVal_Twice(old) == SetNextIndex(old, NextIndex(old) + 2)
StopNewVal(old) == SetNextIndex(old, NextIndex(old) + 1)

\* TrySwitchState(bool*)
SwitchResult_Always(old) == TRUE
SwitchResult(old) == CurIndex(old) # NextIndex(old)
SwitchNewVal_Keep(old) == old
SwitchNewVal_Both(old) == SetNextIndex(SetCurIndex(old, NextIndex(old)), NextIndex(old) + 1)
SwitchNewVal(old) == SetCurIndex(old, NextIndex(old))

\* WriteNextStateStop: if (--fCallWriteCounter == 0) WriteNextStateStopAux()
StopIsOutermost_Always(depth) == TRUE
StopIsOutermost(depth) == depth - 1 = 0

(***************************************************************************)
(* AtomicArrayCounter (JackAtomicArrayState.h)                             *)
(***************************************************************************)
PendingIds == {1, 2}
Slots == {0, 1, 2}
GetIndex1(c, state) == c[state]
SetIndex1(c, state, val) == [c EXCEPT ![state] = val % Mod8]
IncIndex1_NoWrap(c, state) == [c EXCEPT ![state] = @ + 1]
IncIndex1(c, state) == [c EXCEPT ![state] = (@ + 1) % Mod8]
\* returns the toggled byte 0; the counter it is called on is not modified
SwapIndex1_Same(c, state) == state
SwapIndex1(c, state) == IF c[0] = state THEN 0 ELSE state

(***************************************************************************)
(* The loop bodies of JackAtomicArrayState                                 *)
(***************************************************************************)
\* WriteNextStateStartAux(state, result)
AStartResult(old, state) == GetIndex1(old, state) # 0
AStartCurIndex(old) == GetIndex1(old, 0)
ANeedCopy(old, state) == GetIndex1(old, state) = 0
AStartNewVal(old, state) == SetIndex1(old, state, 0)

\* WriteNextStateStopAux(state)
AStopNewVal_Clobber(old, state) == SetIndex1(SetIndex1(old, 3 - state, 0), state, 1)
AStopNewVal(old, state) == SetIndex1(old, state, 1)

\* TrySwitchState(state, result)
ASwitchResult_Always(old, state) == TRUE
ASwitchResult(old, state) == GetIndex1(old, state) # 0
ASwitchNewVal_KeepFlag(old, state) ==
    IF GetIndex1(old, state) # 0
      THEN IncIndex1(SetIndex1(old, 0, SwapIndex1(old, state)), 3)
      ELSE old
ASwitchNewVal_AlwaysSwap(old, state) == SetIndex1(old, 0, SwapIndex1(old, state))
ASwitchNewVal(old, state) ==
    IF GetIndex1(old, state) # 0
      THEN IncIndex1(SetIndex1(SetIndex1(old, 0, SwapIndex1(old, state)), state, 0), 3)
      ELSE old

(***************************************************************************)
(* Initial state                                                           *)
(***************************************************************************)
SReaderIdle == [pc |-> "idle", cur_index |-> 0, slot |-> NoSlot, same |-> FALSE,
                \* ghost: the state was stored to after ReadCurrentState
                \* returned it
                written |-> FALSE,
                \* IsPendingChange: the half of the word loaded first (its
                \* value is in cur_index) and the value returned; ghost:
                \* cur # next (sawNe), cur = next (sawEq) held at an instant
                \* from the first load to the second
                first |-> "", ret |-> FALSE, sawNe |-> FALSE, sawEq |-> FALSE]
InitSingleVars(starts) ==
    /\ si = SReaderIdle
    /\ fState = [i \in {0, 1} |-> InitPayload]
    /\ \E c \in starts : fCounter = [cur |-> c, next |-> c]
    /\ fCallWriteCounter = 0
    /\ w = [pc |-> "out", old |-> fCounter, cur_index |-> 0, next_index |-> 0,
            need_copy |-> FALSE, ptr |-> NoSlot]
    /\ r = [pc |-> "idle", old |-> fCounter, result |-> FALSE, ret |-> NoSlot,
            \* ghost: what the previous call returned, what this call's
            \* successful CompareExchange saw and wrote
            swRet |-> NoSlot, prevRet |-> NoSlot, sawPub |-> FALSE,
            sawSup |-> FALSE, quiet |-> FALSE, after |-> fCounter,
            expSlot |-> NoSlot, expPayload |-> InitPayload]
    /\ h = [nRegions |-> 0,             \* outermost regions opened
            nPub |-> 0,                 \* successful WriteNextStateStopAux
            open |-> FALSE,             \* between the Start CAS and the Stop CAS
            outerSlot |-> NoSlot,       \* slot the outermost Start returned
            wordAtBegin |-> fCounter,   \* word the Start CAS wrote
            mutated |-> FALSE,          \* a field was stored in this region
            sawPub |-> FALSE,           \* the Start CAS found an unswitched update
            pub |-> FALSE,              \* a region completed, nothing since
            superseded |-> FALSE,       \* that region replaced an unswitched one
            lastSlot |-> NoSlot,        \* slot of the last completed region
            pubPayload |-> InitPayload, \* its contents at the Stop CAS
            curPayload |-> InitPayload, \* initial state, or the promoted payload
            switchedSincePub |-> 0,     \* switched == true since the last Stop
            wrSince |-> FALSE,          \* a writer CAS since the last switch CAS
            calls |-> 0]                \* 1 once a TrySwitchState completed its CAS

NoSingleVars ==
    /\ si = <<>>
    /\ fState = <<>>
    /\ fCounter = <<>>
    /\ fCallWriteCounter = 0
    /\ w = <<>>
    /\ r = <<>>
    /\ h = <<>>

NoArrayVars ==
    /\ aState = <<>>
    /\ aCounter = <<>>
    /\ aw = <<>>
    /\ ar = <<>>
    /\ ai = <<>>
    /\ ah = <<>>

\* JackAtomicArrayState(): fCounter.SetCounter1(0)
AZero == [i \in 0..3 |-> 0]
AWriterOut == [pc |-> "out", old |-> AZero, result |-> FALSE, cur_index |-> 0,
               next_index |-> 0, need_copy |-> FALSE, ptr |-> NoSlot]
AReaderIdle == [pc |-> "idle", state |-> 0, old |-> AZero, result |-> FALSE,
                ret |-> NoSlot,
                \* ghost, kept until the call returns: the slot the previous
                \* call returned (prevRet); at this call's successful
                \* CompareExchange: no writer CAS since the previous call's and
                \* same id (quiet), new_val == old_val (keptWord), the slot of
                \* the id's last completed region (expSlot), the new current
                \* slot holds what that region left (payloadOk)
                prevRet |-> NoSlot, quiet |-> FALSE,
                keptWord |-> FALSE, expSlot |-> NoSlot, payloadOk |-> FALSE,
                \* ghost: the call returned another slot than the previous
                \* call although quiet
                movedQuiet |-> FALSE]
InitArrayVars ==
    /\ aState = [i \in Slots |-> 0]
    /\ aCounter = AZero
    /\ aw = [p \in PendingIds |-> AWriterOut]
    /\ ar = AReaderIdle
    /\ ai = [pc |-> "idle", t1 |-> 0, slot |-> NoSlot, same |-> FALSE,
             \* ghost: the slot was stored to after ReadCurrentState returned it
             written |-> FALSE]
    /\ ah = [nRegions |-> 0,       \* regions opened
             \* slot of the id's last completed region and its contents at
             \* the Stop CAS, until a TrySwitchState consumes the update
             lastSlot |-> [p \in PendingIds |-> NoSlot],
             pubPayload |-> [p \in PendingIds |-> 0],
             \* id of the last TrySwitchState CAS, 0 after a writer CAS
             lastSw |-> 0]

InitS ==
    variant = "single" /\ InitSingleVars(StartIndexes) /\ NoArrayVars /\ nFail = <<>>
\* the exchanger as constructed
InitS0 ==
    variant = "single" /\ InitSingleVars({0}) /\ NoArrayVars /\ nFail = <<>>
InitA == variant = "array" /\ NoSingleVars /\ InitArrayVars /\ nFail = <<>>
\* the array exchanger after Mod8 - 2 switches of one id, nothing pending
InitAW ==
    /\ variant = "array" /\ NoSingleVars /\ nFail = <<>>
    /\ aState = [i \in Slots |-> 0]
    /\ aCounter = [AZero EXCEPT ![3] = Mod8 - 2]
    /\ aw = [p \in PendingIds |-> AWriterOut]
    /\ ar = AReaderIdle
    /\ ai = [pc |-> "idle", t1 |-> 0, slot |-> NoSlot, same |-> FALSE,
             written |-> FALSE]
    /\ ah = [nRegions |-> 0,
             lastSlot |-> [p \in PendingIds |-> NoSlot],
             pubPayload |-> [p \in PendingIds |-> 0],
             lastSw |-> 0]
\* the array exchanger as constructed, used with one pending id only: the
\* thread that would write the other id is never started
InitA1 ==
    /\ variant = "array" /\ NoSingleVars /\ nFail = <<>>
    /\ aState = [i \in Slots |-> 0]
    /\ aCounter = AZero
    /\ \E p \in PendingIds :
          aw = [q \in PendingIds |->
                  IF q = p THEN AWriterOut ELSE [AWriterOut EXCEPT !.pc = "absent"]]
    /\ ar = AReaderIdle
    /\ ai = [pc |-> "idle", t1 |-> 0, slot |-> NoSlot, same |-> FALSE,
             written |-> FALSE]
    /\ ah = [nRegions |-> 0,
             lastSlot |-> [p \in PendingIds |-> NoSlot],
             pubPayload |-> [p \in PendingIds |-> 0],
             lastSw |-> 0]
Init == InitS \/ InitA

\* the observed threads: 0 the RT reader, 1 the writer (of id 1), 2 the writer
\* of id 2
NoFails == [t \in 0..2 |-> 0]
\* either class as constructed, its CompareExchange loops observed
InitR ==
    /\ nFail = NoFails
    /\ \/ variant = "single" /\ InitSingleVars({0}) /\ NoArrayVars
       \/ variant = "array" /\ NoSingleVars /\ InitArrayVars

\* the observer's record of a CompareExchange of thread t that failed (the
\* loop goes round) or succeeded (the loop is left)
NoteFail(t) == IF nFail = <<>> THEN nFail ELSE [nFail EXCEPT ![t] = @ + 1]
NoteDone(t) == IF nFail = <<>> THEN nFail ELSE [nFail EXCEPT ![t] = 0]

\* the reading thread's ghost record of a store into the state it is reading
SNoteStore(slot) ==
    IF si.pc = "use" /\ slot = si.slot
      THEN [si EXCEPT !.written = TRUE]
      ELSE si

\* the reading thread's ghost record of the counter word c, from the first
\* to the second load of IsPendingChange
SNoteWord(c) ==
    IF si.pc = "pend"
      THEN [si EXCEPT !.sawNe = @ \/ CurIndex(c) # NextIndex(c),
                      !.sawEq = @ \/ CurIndex(c) = NextIndex(c)]
      ELSE si

(***************************************************************************)
(* JackAtomicState: the writer                                             *)
(***************************************************************************)
\* T* WriteNextStateStart():
\*   next_index = (fCallWriteCounter++ == 0) ? WriteNextStateStartAux()
\*                                           : fCounter.NextArrayIndex();
WriteNextStateStart ==
    /\ variant = "single"
    /\ w.pc = "out"
    /\ fCallWriteCounter < MaxDepth
    /\ fCallWriteCounter = 0 => h.nRegions < MaxRegions
    /\ fCallWriteCounter' = fCallWriteCounter + 1
    /\ IF fCallWriteCounter = 0
         THEN /\ w' = [w EXCEPT !.pc = "start_load", !.ptr = NoSlot]
              /\ h' = [h EXCEPT !.nRegions = @ + 1]
         ELSE /\ w' = [w EXCEPT !.ptr = NextArrayIndex(fCounter)]
              /\ h' = h
    /\ UNCHANGED <<variant, nFail, fState, fCounter, r, si, avars>>

\* do { old_val = fCounter; new_val = old_val; ... (the locals)
StartAux_Load ==
    /\ variant = "single"
    /\ w.pc = "start_load"
    /\ w' = [w EXCEPT !.pc = "start_cas", !.old = fCounter,
                      !.cur_index = StartCurIndex(fCounter),
                      !.next_index = StartNextIndex(fCounter),
                      !.need_copy = NeedCopy(fCounter)]
    /\ UNCHANGED <<variant, nFail, fState, fCounter, fCallWriteCounter, r, h, si, avars>>

\* } while (!fCounter.CompareExchange(old_val, new_val));
\* without need_copy the function returns next_index at once
StartAux_CAS ==
    /\ variant = "single"
    /\ w.pc = "start_cas"
    /\ IF fCounter = w.old
         THEN /\ fCounter' = StartNewVal(w.old)
              /\ nFail' = NoteDone(1)
              /\ w' = [w EXCEPT !.pc = IF w.need_copy THEN "copy" ELSE "out",
                                !.ptr = IF w.need_copy THEN NoSlot ELSE w.next_index]
              /\ h' = [h EXCEPT !.open = TRUE, !.outerSlot = w.next_index,
                                !.wordAtBegin = StartNewVal(w.old),
                                !.mutated = FALSE, !.sawPub = h.pub,
                                !.pub = FALSE, !.wrSince = TRUE]
         ELSE /\ w' = [w EXCEPT !.pc = "start_load"]
              /\ UNCHANGED <<fCounter, h>>
              /\ nFail' = NoteFail(1)
    /\ si' = SNoteWord(fCounter')
    /\ UNCHANGED <<variant, fState, fCallWriteCounter, r, avars>>

\* if (need_copy) memcpy(&fState[next_index], &fState[cur_index], sizeof(T));
\* return next_index;
StartAux_Copy ==
    /\ variant = "single"
    /\ w.pc = "copy"
    /\ \E src \in MemcpySource(fState, w.cur_index) :
          fState' = [fState EXCEPT ![w.next_index] = src]
    /\ w' = [w EXCEPT !.pc = "out", !.ptr = w.next_index]
    /\ si' = SNoteStore(w.next_index)
    /\ UNCHANGED <<variant, nFail, fCounter, fCallWriteCounter, r, h, avars>>

\* between Start and Stop the caller stores into the state it was handed,
\* one field at a time
WriteField ==
    /\ variant = "single"
    /\ w.pc = "out"
    /\ fCallWriteCounter > 0
    /\ w.ptr # NoSlot
    /\ \E f \in {"a", "b"}, v \in Vals :
          fState' = [fState EXCEPT ![w.ptr] = [@ EXCEPT ![f] = v]]
    /\ h' = [h EXCEPT !.mutated = TRUE]
    /\ si' = SNoteStore(w.ptr)
    /\ UNCHANGED <<variant, nFail, fCounter, fCallWriteCounter, w, r, avars>>

\* void WriteNextStateStop():
\*   if (--fCallWriteCounter == 0) WriteNextStateStopAux();
\* (balanced use: called only inside a region)
WriteNextStateStop ==
    /\ variant = "single"
    /\ w.pc = "out"
    /\ fCallWriteCounter > 0
    /\ fCallWriteCounter' = fCallWriteCounter - 1
    /\ w' = [w EXCEPT !.pc = IF StopIsOutermost(fCallWriteCounter)
                               THEN "stop_load" ELSE "out"]
    /\ UNCHANGED <<variant, nFail, fState, fCounter, r, h, si, avars>>

\* void WriteNextStateStop() called outside any region:
\*   if (--fCallWriteCounter == 0) WriteNextStateStopAux();
\* the decrement is made whatever the counter holds, and the test fails
WriteNextStateStop_Unbalanced ==
    /\ variant = "single"
    /\ w.pc = "out"
    /\ fCallWriteCounter <= 0
    /\ fCallWriteCounter > 0 - MaxDepth
    /\ ~StopIsOutermost(fCallWriteCounter)
    /\ fCallWriteCounter' = fCallWriteCounter - 1
    /\ UNCHANGED <<variant, nFail, fState, fCounter, w, r, h, si, avars>>

\* do { old_val = fCounter; new_val = old_val; new_val.SetNextIndex(...)
StopAux_Load ==
    /\ variant = "single"
    /\ w.pc = "stop_load"
    /\ w' = [w EXCEPT !.pc = "stop_cas", !.old = fCounter]
    /\ UNCHANGED <<variant, nFail, fState, fCounter, fCallWriteCounter, r, h, si, avars>>

\* } while (!fCounter.CompareExchange(old_val, new_val));
StopAux_CAS ==
    /\ variant = "single"
    /\ w.pc = "stop_cas"
    /\ IF fCounter = w.old
         THEN /\ fCounter' = StopNewVal(w.old)
              /\ nFail' = NoteDone(1)
              /\ w' = [w EXCEPT !.pc = "out"]
              /\ h' = [h EXCEPT !.open = FALSE, !.pub = TRUE, !.wrSince = TRUE,
                                !.nPub = @ + 1, !.superseded = h.sawPub,
                                !.lastSlot = w.ptr, !.pubPayload = fState[w.ptr],
                                !.switchedSincePub = 0]
         ELSE /\ w' = [w EXCEPT !.pc = "stop_load"]
              /\ UNCHANGED <<fCounter, h>>
              /\ nFail' = NoteFail(1)
    /\ si' = SNoteWord(fCounter')
    /\ UNCHANGED <<variant, fState, fCallWriteCounter, r, avars>>

(***************************************************************************)
(* JackAtomicState: the RT reader                                          *)
(***************************************************************************)
\* TrySwitchState(bool* result) is entered
TrySwitchState_Call ==
    /\ variant = "single"
    /\ r.pc = "idle"
    /\ r' = [r EXCEPT !.pc = "sw_load", !.prevRet = r.swRet, !.ret = NoSlot]
    /\ UNCHANGED <<variant, nFail, fState, fCounter, fCallWriteCounter, w, h, si, avars>>

\* do { old_val = fCounter; new_val = old_val;
\*      *result = (new_val.CurIndex() != new_val.NextIndex()); ...
TrySwitch_Load ==
    /\ variant = "single"
    /\ r.pc = "sw_load"
    /\ r' = [r EXCEPT !.pc = "sw_cas", !.old = fCounter,
                      !.result = SwitchResult(fCounter)]
    /\ UNCHANGED <<variant, nFail, fState, fCounter, fCallWriteCounter, w, h, si, avars>>

\* } while (!fCounter.CompareExchange(old_val, new_val));
TrySwitch_CAS ==
    /\ variant = "single"
    /\ r.pc = "sw_cas"
    /\ IF fCounter = r.old
         THEN /\ fCounter' = SwitchNewVal(r.old)
              /\ nFail' = NoteDone(0)
              /\ r' = [r EXCEPT !.pc = "sw_ret", !.after = SwitchNewVal(r.old),
                                !.sawPub = h.pub,
                                !.sawSup = (h.pub /\ h.superseded),
                                !.quiet = (~h.wrSince /\ h.calls > 0),
                                !.expSlot = h.lastSlot,
                                !.expPayload = h.pubPayload]
              /\ h' = [h EXCEPT !.pub = FALSE, !.wrSince = FALSE, !.calls = 1,
                                !.curPayload = IF r.result THEN h.pubPayload ELSE @,
                                !.switchedSincePub =
                                    IF r.result /\ @ < 2 THEN @ + 1 ELSE @]
         ELSE /\ r' = [r EXCEPT !.pc = "sw_load"]
              /\ UNCHANGED <<fCounter, h>>
              /\ nFail' = NoteFail(0)
    /\ si' = SNoteWord(fCounter')
    /\ UNCHANGED <<variant, fState, fCallWriteCounter, w, avars>>

\* return &fState[fCounter.CurArrayIndex()];  // Read the counter again
TrySwitch_Return ==
    /\ variant = "single"
    /\ r.pc = "sw_ret"
    /\ r' = [r EXCEPT !.pc = "idle", !.ret = CurArrayIndex(fCounter),
                      !.swRet = CurArrayIndex(fCounter)]
    /\ UNCHANGED <<variant, nFail, fState, fCounter, fCallWriteCounter, w, h, si, avars>>

\* ReadCurrentState(): return &fState[fCounter.CurArrayIndex()];
ReadCurrentState ==
    /\ variant = "single"
    /\ r.pc = "idle"
    /\ r' = [r EXCEPT !.ret = CurArrayIndex(fCounter)]
    /\ UNCHANGED <<variant, nFail, fState, fCounter, fCallWriteCounter, w, h, si, avars>>

NextS ==
    \/ WriteNextStateStart
    \/ StartAux_Load
    \/ StartAux_CAS
    \/ StartAux_Copy
    \/ WriteField
    \/ WriteNextStateStop
    \/ StopAux_Load
    \/ StopAux_CAS
    \/ TrySwitchState_Call
    \/ TrySwitch_Load
    \/ TrySwitch_CAS
    \/ TrySwitch_Return
    \/ ReadCurrentState

(***************************************************************************)
(* JackAtomicState: a non-RT reading thread (TestReadMethod)               *)
(*   next_index = GetCurrentIndex();                                       *)
(*   do { cur_index = next_index; state = ReadCurrentState(); ...          *)
(*        next_index = GetCurrentIndex(); } while (cur_index != next_index)*)
(***************************************************************************)
\* UInt16 GetCurrentIndex(): return fCounter.CurIndex();
GetCurrentIndex(c) == CurIndex(c)

\* next_index = GetCurrentIndex(); cur_index = next_index;
SGetCurrentIndex1 ==
    /\ variant = "single"
    /\ si.pc = "idle"
    /\ si' = [SReaderIdle EXCEPT !.pc = "read",
                                 !.cur_index = GetCurrentIndex(fCounter)]
    /\ UNCHANGED <<variant, nFail, fState, fCounter, fCallWriteCounter, w, r, h, avars>>

\* state = ReadCurrentState();
SReadCurrentState ==
    /\ variant = "single"
    /\ si.pc = "read"
    /\ si' = [si EXCEPT !.pc = "use", !.slot = CurArrayIndex(fCounter)]
    /\ UNCHANGED <<variant, nFail, fState, fCounter, fCallWriteCounter, w, r, h, avars>>

\* next_index = GetCurrentIndex(); and the loop test cur_index != next_index:
\* the read is accepted, or the loop goes round with cur_index = next_index
SGetCurrentIndex2 ==
    /\ variant = "single"
    /\ si.pc = "use"
    /\ IF si.cur_index = GetCurrentIndex(fCounter)
         THEN si' = [SReaderIdle EXCEPT !.pc = "done", !.same = TRUE,
                                       !.written = si.written]
         ELSE si' = [SReaderIdle EXCEPT !.pc = "read",
                                       !.cur_index = GetCurrentIndex(fCounter)]
    /\ UNCHANGED <<variant, nFail, fState, fCounter, fCallWriteCounter, w, r, h, avars>>

\* the accepted read is used; the caller may read again
SLoop ==
    /\ variant = "single"
    /\ si.pc = "done"
    /\ si' = SReaderIdle
    /\ UNCHANGED <<variant, nFail, fState, fCounter, fCallWriteCounter, w, r, h, avars>>

NextSI ==
    \/ SGetCurrentIndex1
    \/ SReadCurrentState
    \/ SGetCurrentIndex2
    \/ SLoop

(***************************************************************************)
(* JackAtomicState: a thread calling IsPendingChange()                     *)
(*   return fCounter.CurIndex() != fCounter.NextIndex();                   *)
(* two loads of fCounter, one per operand, in the order the build chooses  *)
(***************************************************************************)
\* the half of word c an operand loads
LoadHalf(c, f) == IF f = "cur" THEN CurIndex(c) ELSE NextIndex(c)
OtherHalf(f) == IF f = "cur" THEN "next" ELSE "cur"
IsPendingChange(a, b) == a # b

\* the operand evaluated first
SIsPendingChange1 ==
    /\ variant = "single"
    /\ si.pc = "idle"
    /\ \E f \in {"cur", "next"} :
          si' = [SReaderIdle EXCEPT !.pc = "pend", !.first = f,
                                   !.cur_index = LoadHalf(fCounter, f),
                                   !.sawNe = CurIndex(fCounter) # NextIndex(fCounter),
                                   !.sawEq = CurIndex(fCounter) = NextIndex(fCounter)]
    /\ UNCHANGED <<variant, nFail, fState, fCounter, fCallWriteCounter, w, r, h, avars>>

\* the other operand, and the comparison
SIsPendingChange2 ==
    /\ variant = "single"
    /\ si.pc = "pend"
    /\ si' = [SReaderIdle EXCEPT
                 !.pc = "pend_ret",
                 !.ret = IsPendingChange(si.cur_index,
                                         LoadHalf(fCounter, OtherHalf(si.first))),
                 !.sawNe = si.sawNe, !.sawEq = si.sawEq]
    /\ UNCHANGED <<variant, nFail, fState, fCounter, fCallWriteCounter, w, r, h, avars>>

\* the caller has the answer
SIsPendingChange_Return ==
    /\ variant = "single"
    /\ si.pc = "pend_ret"
    /\ si' = SReaderIdle
    /\ UNCHANGED <<variant, nFail, fState, fCounter, fCallWriteCounter, w, r, h, avars>>

NextSP ==
    \/ SIsPendingChange1
    \/ SIsPendingChange2
    \/ SIsPendingChange_Return

SpecS == InitS /\ [][NextS]_vars
\* the writer, the RT reader and a thread calling IsPendingChange
SpecSP == InitS /\ [][NextS \/ NextSP]_vars
SpecSI == InitS /\ [][NextS \/ NextSI]_vars
SpecS0 == InitS0 /\ [][NextS]_vars
\* a writer that also calls WriteNextStateStop outside a region
SpecSU == InitS0 /\ [][NextS \/ WriteNextStateStop_Unbalanced]_vars

(***************************************************************************)
(* Claims about JackAtomicState                                            *)
(***************************************************************************)
\* slots the writer may store to in this state
WriterSlots ==
    IF ~h.open THEN {}
    ELSE {h.outerSlot} \cup (IF w.ptr # NoSlot THEN {w.ptr} ELSE {})

\* the reader is past the CompareExchange of its latest TrySwitchState
AfterSwitch == r.pc = "sw_ret" \/ (r.pc = "idle" /\ h.calls > 0)

\* C1: with one (possibly nesting) writer and one reader, the slot that
\* ReadCurrentState selects, and the slot the reader still holds, is never
\* a slot the writer stores to between its outermost Start CAS and Stop CAS;
\* the current slot always holds the initial state or the payload a
\* completed region published.
C1_ReaderNeverSeesOpenSlot ==
    variant = "single" =>
        /\ CurArrayIndex(fCounter) \notin WriterSlots
        /\ r.ret \notin WriterSlots
        /\ fState[CurArrayIndex(fCounter)] = h.curPayload

C1_Witness ==
    /\ variant = "single"
    /\ h.open /\ h.mutated /\ fCallWriteCounter = 2
    /\ r.pc = "idle" /\ r.ret # NoSlot /\ r.result
    /\ fState[w.ptr] # fState[r.ret]
    /\ h.curPayload # InitPayload

\* C5: the seeding memcpy of an outermost Start that found cur == next reads
\* the current slot fState[cur & 1], so the slot handed to the writer starts
\* as a copy of the current slot.
C5_SeedIsCopyOfCurrent ==
    variant = "single" =>
        /\ w.pc = "copy" => w.cur_index = CurArrayIndex(fCounter)
        /\ (h.open /\ w.pc = "out" /\ w.need_copy /\ ~h.mutated)
               => fState[h.outerSlot] = fState[CurArrayIndex(fCounter)]

\* C6: a TrySwitchState whose CompareExchange finds a completed, not yet
\* switched region (and only such a one) reports true, advances cur by
\* exactly 1 mod 2^16, leaves cur == next, and the current slot is then the
\* slot that region wrote, with the contents it had at the Stop.
C6_PublishThenSwitch ==
    (variant = "single" /\ AfterSwitch) =>
        /\ r.result = (CurIndex(r.old) # NextIndex(r.old))
        /\ r.result = r.sawPub
        /\ r.result =>
              /\ CurIndex(r.after) = (CurIndex(r.old) + 1) % Mod16
              /\ CurIndex(r.after) = NextIndex(r.after)
              /\ CurArrayIndex(fCounter) = r.expSlot
              /\ fState[r.expSlot] = r.expPayload
              /\ r.ret \in {NoSlot, r.expSlot}

C6_Witness ==
    /\ variant = "single"
    /\ r.pc = "idle" /\ r.result /\ r.ret = r.expSlot
    /\ CurIndex(r.old) = Mod16 - 1 /\ CurIndex(fCounter) = 0
    /\ fState[r.ret] # InitPayload

\* C7: a second outermost region begun while the first is still unswitched
\* gets the same slot and no seeding copy; the switch that follows exposes
\* the second region's payload, leaves cur == next, and no second switch
\* reports true.
C7_Supersession ==
    variant = "single" =>
        /\ (h.open /\ h.sawPub) =>
              /\ ~w.need_copy
              /\ w.pc # "copy"
              /\ h.outerSlot = h.lastSlot
        /\ h.switchedSincePub <= 1
        /\ (AfterSwitch /\ r.sawSup) =>
              /\ r.result
              /\ fState[CurArrayIndex(fCounter)] = r.expPayload
              /\ CurIndex(r.after) = NextIndex(r.after)

C7_Witness ==
    /\ variant = "single"
    /\ r.pc = "idle" /\ r.sawSup /\ r.result
    /\ h.switchedSincePub = 1 /\ h.calls > 0 /\ r.quiet = FALSE
    /\ fState[r.ret] = [a |-> 1, b |-> 0]
    /\ fState[1 - r.ret] = [a |-> 1, b |-> 0]

\* C9: while write_depth >= 1 the writer holds the slot the outermost Start
\* returned and the counter word stays the one the outermost Start wrote,
\* whatever the reader does; no update is published while write_depth >= 1,
\* and every outermost region publishes exactly once.
C9_NestedWrite ==
    variant = "single" =>
        /\ (fCallWriteCounter >= 1 /\ w.pc = "out") =>
              /\ w.ptr = h.outerSlot
              /\ fCounter = h.wordAtBegin
        /\ fCallWriteCounter >= 1 => h.nPub = h.nRegions - 1
        /\ (fCallWriteCounter = 0 /\ w.pc = "out") => h.nPub = h.nRegions

C9_Witness ==
    /\ variant = "single"
    /\ fCallWriteCounter = 2 /\ w.pc = "out" /\ h.mutated
    /\ h.nPub = 1 /\ h.nRegions = 2
    /\ r.pc = "sw_ret" /\ ~r.result

(***************************************************************************)
(* JackAtomicArrayState: the writers, one thread per pending id            *)
(***************************************************************************)
\* the inspector's ghost record of a store into the slot it is reading
NoteStore(slot) ==
    IF ai.pc = "use" /\ slot = ai.slot
      THEN [ai EXCEPT !.written = TRUE]
      ELSE ai

\* the locals after:  old_val = fCounter; new_val = old_val;
\*      *result = new_val.GetIndex1(state); cur_index = new_val.GetIndex1(0);
\*      need_copy = (new_val.GetIndex1(state) == 0);
AStartLoaded(p) ==
    [aw[p] EXCEPT !.pc = "start_swap", !.old = aCounter,
                  !.result = AStartResult(aCounter, p),
                  !.cur_index = AStartCurIndex(aCounter),
                  !.need_copy = ANeedCopy(aCounter, p)]

\* T* WriteNextStateStart(int state, bool* result): entry and the first
\* load of the loop in WriteNextStateStartAux
AWriteNextStateStart(p) ==
    /\ variant = "array"
    /\ aw[p].pc = "out"
    /\ ah.nRegions < MaxRegionsA
    /\ aw' = [aw EXCEPT ![p] = AStartLoaded(p)]
    /\ ah' = [ah EXCEPT !.nRegions = @ + 1]
    /\ UNCHANGED <<variant, nFail, svars, aState, aCounter, ar, ai>>

\* the load of a further iteration
AStartAux_Load(p) ==
    /\ variant = "array"
    /\ aw[p].pc = "start_load"
    /\ aw' = [aw EXCEPT ![p] = AStartLoaded(p)]
    /\ UNCHANGED <<variant, nFail, svars, aState, aCounter, ar, ai, ah>>

\*      next_index = fCounter.SwapIndex1(state);   (a second load of fCounter)
AStartAux_Swap(p) ==
    /\ variant = "array"
    /\ aw[p].pc = "start_swap"
    /\ aw' = [aw EXCEPT ![p].pc = "start_cas",
                        ![p].next_index = SwapIndex1(aCounter, p)]
    /\ UNCHANGED <<variant, nFail, svars, aState, aCounter, ar, ai, ah>>

\*      new_val.SetIndex1(state, 0);
\* } while (!fCounter.CompareExchange(old_val, new_val));
\* without need_copy the function returns next_index at once
AStartAux_CAS(p) ==
    /\ variant = "array"
    /\ aw[p].pc = "start_cas"
    /\ IF aCounter = aw[p].old
         THEN /\ aCounter' = AStartNewVal(aw[p].old, p)
              /\ nFail' = NoteDone(p)
              /\ aw' = [aw EXCEPT ![p].pc = IF aw[p].need_copy THEN "copy" ELSE "in",
                                  ![p].ptr = aw[p].next_index,
                                  ![p].next_index = 0,
                                  ![p].cur_index =
                                      IF aw[p].need_copy THEN aw[p].cur_index ELSE 0,
                                  ![p].old = AZero]
              /\ ah' = [ah EXCEPT !.lastSw = 0]
         ELSE /\ aw' = [aw EXCEPT ![p] = [AWriterOut EXCEPT !.pc = "start_load"]]
              /\ UNCHANGED <<aCounter, ah>>
              /\ nFail' = NoteFail(p)
    /\ UNCHANGED <<variant, svars, aState, ar, ai>>

\* if (need_copy) memcpy(&fState[next_index], &fState[cur_index], sizeof(T));
\* return next_index;
AStartAux_Copy(p) ==
    /\ variant = "array"
    /\ aw[p].pc = "copy"
    /\ aState' = [aState EXCEPT ![aw[p].ptr] = aState[aw[p].cur_index]]
    /\ aw' = [aw EXCEPT ![p].pc = "in", ![p].cur_index = 0]
    /\ ai' = NoteStore(aw[p].ptr)
    /\ UNCHANGED <<variant, nFail, svars, aCounter, ar, ah>>

\* between Start and Stop the caller stores into the state it was handed
AWriteState(p) ==
    /\ variant = "array"
    /\ aw[p].pc = "in"
    /\ \E v \in Vals : aState' = [aState EXCEPT ![aw[p].ptr] = v]
    /\ ai' = NoteStore(aw[p].ptr)
    /\ UNCHANGED <<variant, nFail, svars, aCounter, aw, ar, ah>>

\* void WriteNextStateStop(int state): entry and the first load of the loop
\* in WriteNextStateStopAux:  old_val = fCounter; new_val = old_val;
AWriteNextStateStop(p) ==
    /\ variant = "array"
    /\ aw[p].pc = "in"
    /\ aw' = [aw EXCEPT ![p].pc = "stop_cas", ![p].old = aCounter]
    /\ UNCHANGED <<variant, nFail, svars, aState, aCounter, ar, ai, ah>>

\* the load of a further iteration
AStopAux_Load(p) ==
    /\ variant = "array"
    /\ aw[p].pc = "stop_load"
    /\ aw' = [aw EXCEPT ![p].pc = "stop_cas", ![p].old = aCounter]
    /\ UNCHANGED <<variant, nFail, svars, aState, aCounter, ar, ai, ah>>

\*      new_val.SetIndex1(state, 1);
\* } while (!fCounter.CompareExchange(old_val, new_val));
AStopAux_CAS(p) ==
    /\ variant = "array"
    /\ aw[p].pc = "stop_cas"
    /\ IF aCounter = aw[p].old
         THEN /\ aCounter' = AStopNewVal(aw[p].old, p)
              /\ nFail' = NoteDone(p)
              /\ aw' = [aw EXCEPT ![p] = AWriterOut]
              /\ ah' = [ah EXCEPT !.lastSw = 0,
                                  !.lastSlot[p] = aw[p].ptr,
                                  !.pubPayload[p] = aState[aw[p].ptr]]
         ELSE /\ aw' = [aw EXCEPT ![p].pc = "stop_load", ![p].old = AZero]
              /\ UNCHANGED <<aCounter, ah>>
              /\ nFail' = NoteFail(p)
    /\ UNCHANGED <<variant, svars, aState, ar, ai>>

(***************************************************************************)
(* JackAtomicArrayState: the RT reader                                     *)
(***************************************************************************)
\* TrySwitchState(int state, bool* result): entry and the first load
\*   old_val = fCounter; new_val = old_val;
\*   if ((*result = new_val.GetIndex1(state))) { ... }
ATrySwitchState(p) ==
    /\ variant = "array"
    /\ ar.pc = "idle"
    /\ ar' = [AReaderIdle EXCEPT !.pc = "sw_cas", !.state = p,
                                 !.old = aCounter,
                                 !.result = ASwitchResult(aCounter, p),
                                 !.prevRet = ar.ret]
    /\ UNCHANGED <<variant, nFail, svars, aState, aCounter, aw, ai, ah>>

\* the load of a further iteration
ATrySwitch_Load ==
    /\ variant = "array"
    /\ ar.pc = "sw_load"
    /\ ar' = [ar EXCEPT !.pc = "sw_cas", !.old = aCounter,
                        !.result = ASwitchResult(aCounter, ar.state)]
    /\ UNCHANGED <<variant, nFail, svars, aState, aCounter, aw, ai, ah>>

\* } while (!fCounter.CompareExchange(old_val, new_val));
ATrySwitch_CAS ==
    /\ variant = "array"
    /\ ar.pc = "sw_cas"
    /\ IF aCounter = ar.old
         THEN /\ aCounter' = ASwitchNewVal(ar.old, ar.state)
              /\ nFail' = NoteDone(0)
              /\ ar' = [ar EXCEPT !.pc = "sw_ret", !.old = AZero,
                                  !.quiet = (ah.lastSw = ar.state),
                                  !.keptWord = (ASwitchNewVal(ar.old, ar.state) = ar.old),
                                  !.expSlot = ah.lastSlot[ar.state],
                                  !.payloadOk =
                                      (aState[ASwitchNewVal(ar.old, ar.state)[0]]
                                          = ah.pubPayload[ar.state])]
              /\ ah' = IF ar.result
                         THEN [ah EXCEPT !.lastSw = ar.state,
                                         !.lastSlot[ar.state] = NoSlot,
                                         !.pubPayload[ar.state] = 0]
                         ELSE [ah EXCEPT !.lastSw = ar.state]
         ELSE /\ ar' = [ar EXCEPT !.pc = "sw_load", !.old = AZero,
                                  !.result = FALSE]
              /\ UNCHANGED <<aCounter, ah>>
              /\ nFail' = NoteFail(0)
    /\ UNCHANGED <<variant, svars, aState, aw, ai>>

\* return &fState[fCounter.GetIndex1(0)];  // Read the counter again
ATrySwitch_Return ==
    /\ variant = "array"
    /\ ar.pc = "sw_ret"
    /\ ar' = [AReaderIdle EXCEPT !.ret = GetIndex1(aCounter, 0),
                                 !.movedQuiet =
                                     (ar.quiet /\ GetIndex1(aCounter, 0) # ar.prevRet)]
    /\ UNCHANGED <<variant, nFail, svars, aState, aCounter, aw, ai, ah>>

\* ReadCurrentState(): return &fState[fCounter.GetIndex1(0)];
AReadCurrentState ==
    /\ variant = "array"
    /\ ar.pc = "idle"
    /\ ar' = [ar EXCEPT !.ret = GetIndex1(aCounter, 0)]
    /\ UNCHANGED <<variant, nFail, svars, aState, aCounter, aw, ai, ah>>

(***************************************************************************)
(* JackAtomicArrayState: a non-RT inspector                                *)
(*   next = GetCurrentIndex();                                             *)
(*   do { cur = next; state = ReadCurrentState(); ... use *state ...       *)
(*        next = GetCurrentIndex(); } while (cur != next);                 *)
(***************************************************************************)
IGetCurrentIndex1 ==
    /\ variant = "array"
    /\ ai.pc = "idle"
    /\ ai' = [ai EXCEPT !.pc = "read", !.t1 = GetIndex1(aCounter, 3),
                        !.slot = NoSlot, !.same = FALSE, !.written = FALSE]
    /\ UNCHANGED <<variant, nFail, svars, aState, aCounter, aw, ar, ah>>

\* state = ReadCurrentState();
IReadCurrentState ==
    /\ variant = "array"
    /\ ai.pc = "read"
    /\ ai' = [ai EXCEPT !.pc = "use", !.slot = GetIndex1(aCounter, 0)]
    /\ UNCHANGED <<variant, nFail, svars, aState, aCounter, aw, ar, ah>>

\* next = GetCurrentIndex(); and the loop test cur != next
\* (an accepted read keeps slot and written, a rejected one the new ticket)
IGetCurrentIndex2 ==
    /\ variant = "array"
    /\ ai.pc = "use"
    /\ IF ai.t1 = GetIndex1(aCounter, 3)
         THEN ai' = [ai EXCEPT !.pc = "done", !.same = TRUE, !.t1 = 0]
         ELSE ai' = [ai EXCEPT !.pc = "done", !.same = FALSE,
                               !.t1 = GetIndex1(aCounter, 3),
                               !.slot = NoSlot, !.written = FALSE]
    /\ UNCHANGED <<variant, nFail, svars, aState, aCounter, aw, ar, ah>>

\* accepted (the caller goes on and may inspect again), or another iteration
ILoop ==
    /\ variant = "array"
    /\ ai.pc = "done"
    /\ IF ai.same
         THEN ai' = [ai EXCEPT !.pc = "idle", !.t1 = 0, !.slot = NoSlot,
                               !.same = FALSE, !.written = FALSE]
         ELSE ai' = [ai EXCEPT !.pc = "read", !.slot = NoSlot, !.same = FALSE,
                               !.written = FALSE]
    /\ UNCHANGED <<variant, nFail, svars, aState, aCounter, aw, ar, ah>>

NextA ==
    \/ \E p \in PendingIds : AWriteNextStateStart(p)
    \/ \E p \in PendingIds : AStartAux_Load(p)
    \/ \E p \in PendingIds : AStartAux_Swap(p)
    \/ \E p \in PendingIds : AStartAux_CAS(p)
    \/ \E p \in PendingIds : AStartAux_Copy(p)
    \/ \E p \in PendingIds : AWriteState(p)
    \/ \E p \in PendingIds : AWriteNextStateStop(p)
    \/ \E p \in PendingIds : AStopAux_Load(p)
    \/ \E p \in PendingIds : AStopAux_CAS(p)
    \/ \E p \in PendingIds : ATrySwitchState(p)
    \/ ATrySwitch_Load
    \/ ATrySwitch_CAS
    \/ ATrySwitch_Return
    \/ AReadCurrentState

NextI ==
    \/ IGetCurrentIndex1
    \/ IReadCurrentState
    \/ IGetCurrentIndex2
    \/ ILoop

Next == NextS \/ NextA

SpecA == InitA /\ [][NextA]_vars
SpecAI == InitA /\ [][NextA \/ NextI]_vars
SpecAW == InitAW /\ [][NextA]_vars
\* one pending id in use, or both
SpecA1 == (InitA1 \/ InitA) /\ [][NextA]_vars
Spec == Init /\ [][Next]_vars
\* both classes, the CompareExchange loops observed
SpecR == InitR /\ [][Next]_vars

(***************************************************************************)
(* Scheduling: a thread that is inside a call goes on executing it.  The   *)
(* calls themselves (and the caller's stores) are made at the caller's     *)
(* discretion and carry no fairness.                                       *)
(***************************************************************************)
\* the single writer inside WriteNextStateStartAux / WriteNextStateStopAux
WriterRuns == StartAux_Load \/ StartAux_CAS \/ StartAux_Copy
                \/ StopAux_Load \/ StopAux_CAS
\* the single RT reader inside TrySwitchState
ReaderRuns == TrySwitch_Load \/ TrySwitch_CAS \/ TrySwitch_Return
\* writer p of the array inside WriteNextStateStartAux / WriteNextStateStopAux
AWriterRuns(p) == AStartAux_Load(p) \/ AStartAux_Swap(p) \/ AStartAux_CAS(p)
                    \/ AStartAux_Copy(p) \/ AStopAux_Load(p) \/ AStopAux_CAS(p)
\* the array's RT reader inside TrySwitchState
AReaderRuns == ATrySwitch_Load \/ ATrySwitch_CAS \/ ATrySwitch_Return

LiveSpec ==
    /\ Init /\ [][Next]_vars
    /\ WF_vars(WriterRuns) /\ WF_vars(ReaderRuns)
    /\ \A p \in PendingIds : WF_vars(AWriterRuns(p))
    /\ WF_vars(AReaderRuns)

(***************************************************************************)
(* Claims about JackAtomicArrayState                                       *)
(***************************************************************************)
\* writer p is between the CompareExchange of its WriteNextStateStart and the
\* CompareExchange of its WriteNextStateStop
InRegionA(p) == aw[p].pc \in {"copy", "in", "stop_load", "stop_cas"}

\* C2: with writer 1 on id 1, writer 2 on id 2 and a switching reader, the
\* slot designated current, fState[byte 0], is never a slot that a writer
\* is writing between its Start CAS and its Stop.
C2_CurrentNeverWritten ==
    variant = "array" =>
        \A p \in PendingIds :
            (InRegionA(p) => aw[p].ptr # GetIndex1(aCounter, 0))

\* C3: when both writers are inside a write region at the same time, the
\* slots they were handed differ.
C3_WritersOnDistinctSlots ==
    (variant = "array" /\ InRegionA(1) /\ InRegionA(2)) =>
        aw[1].ptr # aw[2].ptr

\* C4: a TrySwitchState(p) whose successful CompareExchange saw byte p set
\* makes current the slot that p's last completed region was handed, and
\* that slot holds what the region left in it.
C4_PendingBecomesCurrent ==
    (variant = "array" /\ ar.pc = "sw_ret" /\ ar.result) =>
        /\ GetIndex1(aCounter, 0) = ar.expSlot
        /\ ar.payloadOk

\* C8: in both classes, a TrySwitchState that follows another one (of the
\* same id) with no writer CompareExchange in between reports false, leaves
\* the counter word as it was, and returns the slot the first one returned.
C8_TrySwitchIdempotent ==
    /\ (variant = "single" /\ AfterSwitch /\ r.quiet) =>
          /\ ~r.result
          /\ r.after = r.old
          /\ (r.pc = "idle" => r.ret = r.prevRet)
    /\ variant = "array" =>
          /\ ((ar.pc = "sw_ret" /\ ar.quiet) => (~ar.result /\ ar.keptWord))
          /\ ~ar.movedQuiet

\* a quiet second TrySwitchState(2) after a real switch to id 2, while id 1
\* has an unswitched update
C8_Witness ==
    /\ variant = "array"
    /\ ar.pc = "sw_ret" /\ ar.quiet /\ ar.state = 2
    /\ GetIndex1(aCounter, 0) = 2 /\ GetIndex1(aCounter, 3) = 1
    /\ GetIndex1(aCounter, 1) = 1

\* the same in JackAtomicState: the second call returned, the first switched
C8_WitnessSingle ==
    /\ variant = "single"
    /\ r.pc = "idle" /\ r.quiet /\ r.ret = 1 /\ h.nPub = 1
    /\ fState[1] # InitPayload

\* C10: an inspector that reads the switch counter, then the slot
\* ReadCurrentState designates, then the switch counter again, and finds the
\* two counters equal, has read a slot that no writer stored to meanwhile
\* (checked for the stores made after ReadCurrentState returned the slot).
C10_TicketCoherent ==
    (variant = "array" /\ ai.pc = "done" /\ ai.same) => ~ai.written

(***************************************************************************)
(* Claims about the coherency check of JackAtomicState                     *)
(***************************************************************************)
\* C11: a reading thread that reads GetCurrentIndex(), then the state
\* ReadCurrentState() designates, then GetCurrentIndex() again, and finds the
\* two indexes equal, has read a state the writer did not store to
\* meanwhile (stores are tracked from ReadCurrentState to the second index
\* read).
C11_IndexCoherent ==
    (variant = "single" /\ si.pc = "done" /\ si.same) => ~si.written

\* an accepted read taken while the writer is inside a region in which it
\* has stored, after at least one switch
C11_Witness ==
    /\ variant = "single"
    /\ si.pc = "done" /\ si.same
    /\ h.open /\ h.mutated /\ w.pc = "out"
    /\ h.calls > 0 /\ h.nPub >= 1
    /\ CurIndex(fCounter) = 1

\* C12: byte[3] of the counter word increases by exactly 1 (mod 256) at the
\* successful CompareExchange of a TrySwitchState call that saw byte[state]
\* non-zero, and no other step changes it (not the writers' calls, not a
\* TrySwitchState that saw byte[state] == 0).
C12_SwitchCounter ==
    [][variant = "array" =>
         aCounter'[3] =
             IF ar.pc = "sw_cas" /\ ar'.pc = "sw_ret" /\ ar.result
               THEN (aCounter[3] + 1) % Mod8
               ELSE aCounter[3]]_vars

\* a switch took byte[3] from Mod8 - 1 to 0, after both writers' calls and a
\* switch that found nothing pending
C12_Witness ==
    /\ variant = "array"
    /\ ar.pc = "sw_ret" /\ ar.result
    /\ aCounter[3] = 0
    /\ ah.nRegions >= 2

\* C13: a WriteNextStateStart(state, &result) that found byte[state] non-zero
\* (result true) makes no copy and returns the slot the id's previous write
\* region was handed, so the unswitched update is overwritten in place.
C13_OverwriteInPlace ==
    \A p \in PendingIds :
        (variant = "array" /\ aw[p].pc = "in" /\ aw[p].result)
            => (/\ ~aw[p].need_copy
                /\ aCounter[p] = 0
                /\ aw[p].ptr = ah.lastSlot[p])

\* C14: a CompareExchange of WriteNextStateStartAux, WriteNextStateStopAux or
\* TrySwitchState fails only when the counter word differs from the snapshot
\* the loop loaded, and, the writers opening finitely many regions, every
\* started WriteNextStateStart, WriteNextStateStop and TrySwitchState returns
\* (both classes, threads inside a call scheduled fairly).
C14_FailsOnlyOnChange ==
    /\ (variant = "single" /\ w.pc = "start_cas" /\ w'.pc = "start_load")
           => fCounter # w.old
    /\ (variant = "single" /\ w.pc = "stop_cas" /\ w'.pc = "stop_load")
           => fCounter # w.old
    /\ (variant = "single" /\ r.pc = "sw_cas" /\ r'.pc = "sw_load")
           => fCounter # r.old
    /\ \A p \in PendingIds :
          (variant = "array" /\ aw[p].pc \in {"start_cas", "stop_cas"}
              /\ aw'[p].pc \in {"start_load", "stop_load"})
             => aCounter # aw[p].old
    /\ (variant = "array" /\ ar.pc = "sw_cas" /\ ar'.pc = "sw_load")
           => aCounter # ar.old

\* a thread whose every started call returns is, again and again, outside
\* the loops of its calls
C14_LockFree ==
    /\ [][C14_FailsOnlyOnChange]_vars
    /\ []<>(variant = "single" => w.pc = "out")
    /\ []<>(variant = "single" => r.pc = "idle")
    /\ \A p \in PendingIds : []<>(variant = "array" => aw[p].pc \in {"in", "out"})
    /\ []<>(variant = "array" => ar.pc = "idle")

\* a CompareExchange of writer 1 has failed against a switch
C14_Witness ==
    /\ variant = "array"
    /\ aw[1].pc = "start_load"
    /\ aCounter[3] > 0

\* C15: WriteNextStateStop called with no open region does not drive
\* fCallWriteCounter negative: the counter is never below 0.
C15_DepthNonNegative ==
    variant = "single" => fCallWriteCounter >= 0

\* C16: the successful CompareExchange of a TrySwitchState(state) that saw
\* byte[state] non-zero changes the word in one step to
\* byte[0] = (0 if byte[0] was state, else state), byte[state] = 0,
\* byte[3] = byte[3] + 1 (mod 256); the other id's byte is unchanged.
C16_SwitchStep ==
    [][(variant = "array" /\ ar.pc = "sw_cas" /\ ar'.pc = "sw_ret" /\ ar.result)
          => aCounter' = [aCounter EXCEPT
                             ![0] = IF aCounter[0] = ar.state THEN 0 ELSE ar.state,
                             ![ar.state] = 0,
                             ![3] = (aCounter[3] + 1) % Mod8]]_vars

\* C16 as stated: the step sets byte[0] = state whatever byte[0] was.
C16_SwitchStepAsStated ==
    [][(variant = "array" /\ ar.pc = "sw_cas" /\ ar'.pc = "sw_ret" /\ ar.result)
          => aCounter' = [aCounter EXCEPT
                             ![0] = ar.state,
                             ![ar.state] = 0,
                             ![3] = (aCounter[3] + 1) % Mod8]]_vars

\* a switch of the id whose slot was current has just made slot 0 current,
\* the other id's update still pending
C16_Witness ==
    /\ variant = "array"
    /\ ar.pc = "sw_ret" /\ ar.result
    /\ aCounter[0] = 0
    /\ aCounter[3 - ar.state] = 1

\* C17: a WriteNextStateStart(state) whose CompareExchange saw byte[state] == 0
\* is handed a slot other than the current one of its snapshot; while it
\* copies, no other writer holds the source slot, and from the
\* CompareExchange to its WriteNextStateStop no other writer holds the
\* destination slot.
C17_SeedExclusive ==
    \A p \in PendingIds :
        /\ (variant = "array" /\ aw[p].pc = "copy")
              => (/\ aw[p].ptr # aw[p].cur_index
                  /\ \A q \in PendingIds \ {p} :
                        InRegionA(q) => aw[q].ptr # aw[p].cur_index)
        /\ (variant = "array" /\ InRegionA(p) /\ aw[p].need_copy)
              => \A q \in PendingIds \ {p} :
                    InRegionA(q) => aw[q].ptr # aw[p].ptr

\* C18: with balanced writer calls, next is cur or cur + 1 (mod 2^16); it is
\* cur + 1 exactly from the CompareExchange of the outermost
\* WriteNextStateStop until the next CompareExchange of TrySwitchState or of
\* an outermost WriteNextStateStart; and then slot next & 1 is not the
\* current slot and holds the completed write.
C18_CounterInvariant ==
    variant = "single" =>
        /\ NextIndex(fCounter) \in {CurIndex(fCounter), (CurIndex(fCounter) + 1) % Mod16}
        /\ (CurIndex(fCounter) # NextIndex(fCounter)) <=> h.pub
        /\ (CurIndex(fCounter) # NextIndex(fCounter)) =>
              (/\ NextIndex(fCounter) % 2 # CurArrayIndex(fCounter)
               /\ h.lastSlot = NextIndex(fCounter) % 2
               /\ fState[NextIndex(fCounter) % 2] = h.pubPayload
               /\ ~h.open)

\* an update is pending across the wrap of the 16-bit indexes, the writer's
\* fields stored
C18_Witness ==
    /\ variant = "single"
    /\ CurIndex(fCounter) = Mod16 - 1 /\ NextIndex(fCounter) = 0
    /\ fState[0] # fState[1]
    /\ r.pc = "sw_cas"

\* C19: the writer's steps never change the cur field and the reader's never
\* the next field; cur # next is only made by the CompareExchange of the
\* outermost WriteNextStateStop, which adds 1 to next; cur = next is only
\* made by the CompareExchange of WriteNextStateStart (next := cur) and of
\* TrySwitchState (cur := next); ReadCurrentState changes nothing shared.
C19_WriterStep == w' # w \/ fCallWriteCounter' # fCallWriteCounter
C19_ReaderStep == r' # r
C19_FrameStep ==
    variant = "single" =>
        /\ C19_WriterStep => CurIndex(fCounter') = CurIndex(fCounter)
        /\ C19_ReaderStep => NextIndex(fCounter') = NextIndex(fCounter)
        /\ (CurIndex(fCounter) = NextIndex(fCounter)
                /\ CurIndex(fCounter') # NextIndex(fCounter'))
              => (/\ w.pc = "stop_cas" /\ w'.pc = "out" /\ fCallWriteCounter = 0
                  /\ NextIndex(fCounter') = (NextIndex(fCounter) + 1) % Mod16)
        /\ (CurIndex(fCounter) # NextIndex(fCounter)
                /\ CurIndex(fCounter') = NextIndex(fCounter'))
              => (\/ (w.pc = "start_cas" /\ w'.pc # "start_cas"
                        /\ NextIndex(fCounter') = CurIndex(fCounter))
                  \/ (r.pc = "sw_cas" /\ r'.pc = "sw_ret"
                        /\ CurIndex(fCounter') = NextIndex(fCounter)))
        /\ (r.pc = "idle" /\ r'.pc = "idle" /\ r' # r)
              => (fCounter' = fCounter /\ fState' = fState
                    /\ fCallWriteCounter' = fCallWriteCounter)
        /\ (w' = w /\ r' = r /\ fCallWriteCounter' = fCallWriteCounter)
              => fCounter' = fCounter

C19_Frame == [][C19_FrameStep]_vars

\* a switch has just moved cur onto next across the wrap, while the writer is
\* inside WriteNextStateStartAux for its next region
C19_Witness ==
    /\ variant = "single"
    /\ r.pc = "sw_ret" /\ r.result
    /\ CurIndex(fCounter) = 0 /\ NextIndex(fCounter) = 0
    /\ w.pc = "start_cas"

\* C20: a step of writer p (WriteNextStateStart(p), WriteNextStateStop(p))
\* changes at most byte[p] of the counter word as it is at that step, so a
\* concurrent update of the other id's byte is kept; the CompareExchange of
\* WriteNextStateStop(p) leaves byte[p] = 1 and applying its update again
\* gives the same word; that of WriteNextStateStart(p) leaves byte[p] = 0.
C20_WriterStep(p) ==
    /\ aw'[p] # aw[p]
    /\ \A i \in (0..3) \ {p} : aCounter'[i] = aCounter[i]
    /\ (aw[p].pc = "stop_cas" /\ aw'[p].pc = "out")
          => (aCounter'[p] = 1 /\ AStopNewVal(aCounter', p) = aCounter')
    /\ (aw[p].pc = "start_cas" /\ aw'[p].pc \in {"copy", "in"})
          => aCounter'[p] = 0
    /\ aCounter' # aCounter
          => (aw[p].pc \in {"start_cas", "stop_cas"} /\ aw'[p].pc \in {"copy", "in", "out"})

C20_WriteFrame ==
    [][variant = "array" =>
         \A p \in PendingIds : (aw'[p] # aw[p]) => C20_WriterStep(p)]_vars

\* the CompareExchange of WriteNextStateStop(1) has failed because writer 2
\* set its byte in between (no switch was made), and is retried
C20_Witness ==
    /\ variant = "array"
    /\ aw[1].pc = "stop_load"
    /\ aCounter[2] = 1
    /\ aCounter[3] = 0

\* C21: inside one call of WriteNextStateStart, WriteNextStateStop or
\* TrySwitchState the CompareExchange fails at most as many times as there
\* are other threads that change the counter word: once for JackAtomicState
\* (one writer, one reader), twice for JackAtomicArrayState (two writers, one
\* reader).
C21_BoundedRetry ==
    /\ variant = "single" => \A t \in {0, 1} : nFail[t] <= 1
    /\ variant = "array" => \A t \in 0..2 : nFail[t] <= 2

\* C22: cur and next are 16-bit; a step that changes cur adds 1 modulo 2^16
\* and flips the current slot cur & 1, also from 65535 to 0; the slot the
\* writer holds in a region is always 1 - (cur & 1).
C22_SwitchFlipsSlot ==
    (variant = "single" /\ CurIndex(fCounter') # CurIndex(fCounter))
        => (/\ CurIndex(fCounter') = (CurIndex(fCounter) + 1) % Mod16
            /\ CurArrayIndex(fCounter') = 1 - CurArrayIndex(fCounter)
            /\ r.pc = "sw_cas" /\ r.result)

C22_WrapAlternates ==
    /\ [](variant = "single" =>
            /\ CurIndex(fCounter) \in 0..(Mod16 - 1)
            /\ NextIndex(fCounter) \in 0..(Mod16 - 1)
            /\ (fCallWriteCounter > 0 /\ w.pc = "out")
                  => w.ptr = 1 - CurArrayIndex(fCounter))
    /\ [][C22_SwitchFlipsSlot]_vars

\* the switch from 65535 to 0 has been made and the writer, in its next
\* region, holds slot 1
C22_Witness ==
    /\ variant = "single"
    /\ r.pc = "sw_ret" /\ r.result /\ CurIndex(fCounter) = 0
    /\ fCallWriteCounter > 0 /\ w.pc = "out" /\ w.ptr = 1

\* C23: IsPendingChange() loads cur and next separately; with the writer and
\* the RT reader running, what it returns is the value of cur # next at some
\* instant from its first load to its second: it returns true only if
\* cur # next held at such an instant, false only if cur = next did.
C23_PendingAtSomeInstant ==
    (variant = "single" /\ si.pc = "pend_ret")
        => (/\ si.ret => si.sawNe
            /\ ~si.ret => si.sawEq)

\* the word changed between the two loads: true is returned for an update
\* that has been switched in the meantime
C23_Witness ==
    /\ variant = "single"
    /\ si.pc = "pend_ret" /\ si.ret
    /\ si.sawNe /\ si.sawEq
    /\ CurIndex(fCounter) = NextIndex(fCounter)
    /\ h.calls > 0

\* C24: with one pending id p in use, the current slot is 0 or p and each
\* switch that found an update moves it to the other of the two;
\* WriteNextStateStart(p) returns the one of {0, p} that is not current; the
\* current slot does not change while a write region of p is open; and a
\* switch that found an update makes current the slot of the last completed
\* region, holding what that region left.
C24_OneId == variant = "array" /\ \E p \in PendingIds : aw[p].pc = "absent"
C24_Id == CHOOSE p \in PendingIds : aw[p].pc # "absent"

C24_State ==
    /\ aCounter[0] \in {0, C24_Id}
    /\ InRegionA(C24_Id) =>
          (aw[C24_Id].ptr \in {0, C24_Id} /\ aw[C24_Id].ptr # aCounter[0])
    /\ (ar.pc = "sw_ret" /\ ar.result) =>
          (aCounter[0] = ar.expSlot /\ ar.payloadOk)

C24_Step ==
    /\ (ar.pc = "sw_cas" /\ ar'.pc = "sw_ret" /\ ar.result /\ ar.state = C24_Id)
          => aCounter'[0] = (IF aCounter[0] = 0 THEN C24_Id ELSE 0)
    /\ (InRegionA(C24_Id) /\ aw'[C24_Id].pc \in {"copy", "in", "stop_load", "stop_cas"})
          => aCounter'[0] = aCounter[0]
    /\ aCounter'[0] # aCounter[0]
          => (ar.pc = "sw_cas" /\ ar.result /\ ar.state = C24_Id)

C24_SingleIdAlternates ==
    /\ [](C24_OneId => C24_State)
    /\ [][C24_OneId => C24_Step]_vars

\* id 2 alone: the second switch has made slot 0 current again and the writer
\* holds slot 2 for its third region
C24_Witness ==
    /\ variant = "array"
    /\ aw[1].pc = "absent"
    /\ ar.pc = "sw_ret" /\ ar.result
    /\ aCounter[0] = 0 /\ aCounter[3] = 2
    /\ aw[2].pc = "in" /\ aw[2].ptr = 2

====
